---- MODULE Spec2Model ----
(***************************************************************************)
(* Model of the master-detail preview layout of pkg/tui/preview.go.        *)
(*                                                                         *)
(* Two kinds of threads exist: the main thread, which runs Render and then *)
(* the tview event loop (selection handler, queued updates), and one       *)
(* goroutine per `go pv.renderContents(...)`.  Every step below is one     *)
(* access to shared widget state, so that goroutines interleave with the   *)
(* loop thread between any two table operations.                           *)
(*                                                                         *)
(* A string is a sequence of tokens; the token NL stands for "\n".         *)
(* Rows and columns are 0-based in the source and 1-based here.            *)
(***************************************************************************)
EXTENDS Integers, Sequences, FiniteSets, TLC

\* Bounds of the model.
MaxEntries == 2      \* longest entry slice handed to Render
MaxFetches == 2      \* selection-changed events handled in one session

\* preview.go:8
sidebarMaxWidth == 60

NL == "\n"

----------------------------------------------------------------------------
(* Strings, cells and tview tables *)

\* pad(in, n): the cell text is the input left-padded by n blanks.
pad(s, n) == [i \in 1..n |-> " "] \o s

\* splitText(s): the lines of s, split at line breaks (one line for "").
RECURSIVE splitFrom(_, _, _)
splitFrom(s, i, cur) ==
  IF i > Len(s) THEN <<cur>>
  ELSE IF s[i] = NL THEN <<cur>> \o splitFrom(s, i + 1, <<>>)
  ELSE splitFrom(s, i + 1, Append(cur, s[i]))

splitText(s) == splitFrom(s, 1, <<>>)

\* A cell of a tview.Table; a position never set holds NoCell (nil).
\* src is the selection event on whose behalf the cell was written
\* (0: written by Render).
NoCell == [text |-> <<>>, bold |-> FALSE, selectable |-> FALSE, src |-> -1]

\* tview.NewTableCell(pad(line, 1)).SetStyle(StyleDefault).SetSelectable(false)
TextCell(line, src) ==
  [text |-> pad(line, 1), bold |-> FALSE, selectable |-> FALSE, src |-> src]

\* tview.Table.SetCell(row, column, cell): grows the table as needed.
SetCell(tbl, r, c, cell) ==
  LET rows == IF Len(tbl) >= r THEN tbl
              ELSE tbl \o [i \in 1..(r - Len(tbl)) |-> <<>>]
      old  == rows[r]
      wide == IF Len(old) >= c THEN old
              ELSE old \o [i \in 1..(c - Len(old)) |-> NoCell]
  IN  [rows EXCEPT ![r] = [wide EXCEPT ![c] = cell]]

\* tview.Table.Clear()
Clear == <<>>

\* printText(s) as run in one piece: one SetCell per line, column 0.
RECURSIVE printLines(_, _, _, _)
printLines(tbl, lines, i, src) ==
  IF i > Len(lines) THEN tbl
  ELSE printLines(SetCell(tbl, i, 1, TextCell(lines[i], src)), lines, i + 1, src)

printText(tbl, s, src) == printLines(tbl, splitText(s), 1, src)

----------------------------------------------------------------------------
(* Inputs: contents, producers, entries *)

Text(s)        == [type |-> "string", s |-> s, rows |-> <<>>]
TableData(rs)  == [type |-> "TableData", s |-> <<>>, rows |-> rs]
OtherValue     == [type |-> "other", s |-> <<>>, rows |-> <<>>]

\* A Contents func(string) interface{}: nil, or a function whose call
\* returns one of `results` (more than one when it is not pure).
NilProducer      == [nil |-> TRUE, results |-> {}]
Producer(rs)     == [nil |-> FALSE, results |-> rs]

Table1 == TableData(<< <<"ID", "Summary">> >>)
Table3 == TableData(<< <<"ID", "Summary">>, <<"1", "Fix X">>, <<"2", "Fix Y">> >>)
Table0 == TableData(<< >>)
Text2  == Text(<<"a", NL, "b">>)
Text1  == Text(<<"c">>)

PreviewData(k, m, c) == [Key |-> k, Menu |-> m, Contents |-> c]

\* The entries a caller may pass: a nil producer, pure producers of a text,
\* of a header-only table and of a table with rows, and a producer that may
\* return anything, a different value on each call.
EntryPool ==
  << PreviewData("K0", <<"None">>,  NilProducer),
     PreviewData("K1", <<"Text">>,  Producer({Text2})),
     PreviewData("K2", <<"Empty">>, Producer({Table1})),
     PreviewData("K3", <<"Bugs">>,  Producer({Table3})),
     PreviewData("K4", <<"Any">>,   Producer({Text1, Table0, Table3, OtherValue})) >>

\* The slices handed to Render: up to MaxEntries entries of the pool, kept in
\* the pool's order.
Increasing(f) == \A a, b \in DOMAIN f : a < b => f[a] < f[b]

EntrySeqs ==
  { [k \in DOMAIN f |-> EntryPool[f[k]]] :
      f \in { g \in UNION { [1..n -> DOMAIN EntryPool] : n \in 0..MaxEntries } :
                Increasing(g) } }

\* The texts a caller may set with WithInitialText (none: the empty text).
\* pv.initialText is read once, by Render, and is an input of that step.
InitialTexts == { <<>>, <<"hello">> }

----------------------------------------------------------------------------
(* State *)

VARIABLES
  pd,           \* the entries handed to Render
  lp,           \* position of the main thread / event loop
  i,            \* Render's loop index
  err,          \* the error Render returned ("" while none)
  sidebar,      \* cells of pv.sidebar
  handler,      \* a selection-changed function is installed on the sidebar
  contents,     \* cells of pv.contents.view
  selected,     \* the sidebar's selected row
  nsel,         \* selection-changed events received so far
  hrow,         \* the row r the running handler was called with
  hstep,        \* next statement of the running handler
  selHist,      \* per selection event: the handler statements run so far
  tasks,        \* the renderContents goroutines, in dispatch order
  queue,        \* functions enqueued by QueueUpdateDraw, oldest first
  cur,          \* the goroutine whose queued function the loop is running
  data,         \* `data` of the running queued function
  focus,        \* the pane that has keyboard focus
  hview,        \* the table whose selection change the running handler serves
  cmd           \* the `issue create` command: see the last section

vars == <<pd, lp, i, err, sidebar, handler, contents, selected,
          nsel, hrow, hstep, selHist, tasks, queue, cur, data,
          focus, hview, cmd>>

\* the command's state while no command runs
NoCmd == [pc |-> "none"]

errNoData == "errNoData"

Init ==
  /\ pd \in EntrySeqs
  /\ lp = "new"
  /\ i = 0
  /\ err = ""
  /\ sidebar = <<>>
  /\ handler = FALSE
  /\ contents = <<>>
  /\ selected = 1
  /\ nsel = 0
  /\ hrow = 0
  /\ hstep = 0
  /\ selHist = <<>>
  /\ tasks = <<>>
  /\ queue = <<>>
  /\ cur = 0
  /\ data = <<>>
  /\ focus = "sidebar"
  /\ hview = ""
  /\ cmd = NoCmd

----------------------------------------------------------------------------
(* Render: preview.go:118-146, on the main thread *)

\* len(pd) == 0
\* (faulty variant: the length check never fires)
noDataNever(p) == Len(p) < 0
noData(p) == Len(p) = 0

\* style of sidebar row r (1-based): bold for the first row only
\* (faulty variant: the second row is bold too)
sidebarBoldTwo(r) == r <= 2
sidebarBold(r) == r = 1

\* tview.NewTableCell(pad(d.Menu, 1)).SetMaxWidth(sidebarMaxWidth).SetStyle(style)
SidebarCell(r, d) ==
  [text |-> pad(d.Menu, 1), bold |-> sidebarBold(r), maxWidth |-> sidebarMaxWidth]

Render ==
  /\ lp = "new"
  /\ IF noData(pd)
       THEN /\ err' = errNoData
            /\ lp' = "returned"
            /\ i' = i
       ELSE /\ lp' = "render"
            /\ i' = 1
            /\ err' = err
  /\ UNCHANGED <<cmd, focus, hview, pd, sidebar, handler, contents, selected, nsel,
                 hrow, hstep, selHist, tasks, queue, cur, data>>

\* one iteration of `for i, d := range pd`
RenderRow ==
  /\ lp = "render"
  /\ i <= Len(pd)
  /\ sidebar' = SetCell(sidebar, i, 1, SidebarCell(i, pd[i]))
  /\ handler' = TRUE
  /\ i' = i + 1
  /\ UNCHANGED <<cmd, focus, hview, pd, lp, err, contents, selected, nsel, hrow,
                 hstep, selHist, tasks, queue, cur, data>>

\* pv.printText(pv.initialText); return pv.screen.Paint(pv.painter)
RenderPaint ==
  /\ lp = "render"
  /\ i > Len(pd)
  /\ \E initialText \in InitialTexts :
       contents' = printText(contents, initialText, 0)
  /\ lp' = "loop"
  /\ UNCHANGED <<cmd, focus, hview, pd, i, err, sidebar, handler, selected, nsel,
                 hrow, hstep, selHist, tasks, queue, cur, data>>

----------------------------------------------------------------------------
(* The selection-changed handler: preview.go:135-140, on the loop thread *)

\* the literal texts painted by the handler and by renderContents
msgLoading    == <<"Loading...">>
\* (faulty variant of msgNoContents: the other placeholder)
msgNoContentsWrong == <<"No results to show.">>
msgNoContents == <<"No contents defined.">>
msgNoResults  == <<"No results to show.">>

\* the handler's statements, in program order
\* (faulty variant: the fetch is dispatched before the placeholder is painted)
HandlerStepsGoFirst == <<"clear", "go", "loading">>
HandlerSteps == <<"clear", "loading", "go">>

\* a goroutine just started by `go pv.renderContents(pd[r])`
NewTask(r, d) ==
  [r |-> r, entry |-> d, tpc |-> "start", v |-> OtherValue, calls |-> 0,
   queued |-> 0, direct |-> 0, lines |-> <<>>, line |-> 0]

\* the table Render installs the selection-changed function on: pv.sidebar
\* (faulty variant: it is installed on whichever table reports a change)
handlerOnAny(view) == handler
handlerOn(view) == handler /\ view = "sidebar"

\* goroutine t has returned and, if it enqueued a function, that has run
Finished(t) ==
  /\ tasks[t].tpc = "done"
  /\ cur # t
  /\ \A k \in 1..Len(queue) : queue[k] # t

\* the selection-changed function is called with row r for table `view`
StartHandler(view, r) ==
  /\ nsel < MaxFetches
  /\ nsel' = nsel + 1
  /\ hview' = view
  /\ hrow' = r
  /\ hstep' = 1
  /\ selHist' = Append(selHist, <<>>)
  /\ lp' = "handler"

\* the sidebar, having focus, moves its selection to row r and reports it
SelectionChanged(r) ==
  /\ lp = "loop"
  /\ focus = "sidebar"
  /\ handlerOn("sidebar")
  /\ selected' = r
  /\ StartHandler("sidebar", r)
  /\ UNCHANGED <<cmd, focus, pd, i, err, sidebar,
                 handler, contents, tasks, queue, cur, data>>

\* the content table, having focus, moves its selection to row r: no
\* selection-changed function is installed on it
ContentsSelectionChanged(r) ==
  /\ lp = "loop"
  /\ focus = "contents"
  /\ IF handlerOn("contents")
       THEN /\ StartHandler("contents", r)
            /\ UNCHANGED <<cmd, focus, pd, i, err,
                           sidebar, handler, contents, selected, tasks, queue,
                           cur, data>>
       ELSE UNCHANGED vars

HandlerStep ==
  /\ lp = "handler"
  /\ LET s == HandlerSteps[hstep] IN
       /\ CASE s = "clear"   -> /\ contents' = Clear
                                /\ tasks' = tasks
            [] s = "loading" -> /\ contents' = printText(contents, msgLoading, nsel)
                                /\ tasks' = tasks
            [] s = "go"      -> /\ tasks' = IF hrow \in 1..Len(pd)
                                            THEN Append(tasks, NewTask(hrow, pd[hrow]))
                                            ELSE tasks
                                /\ contents' = contents
       /\ selHist' = [selHist EXCEPT ![nsel] = Append(@, s)]
  /\ IF HandlerSteps[hstep] = "go" /\ hrow \notin 1..Len(pd)
       THEN hstep' = hstep /\ lp' = "panic"       \* pd[r]: index out of range
       ELSE IF hstep < Len(HandlerSteps)
       THEN hstep' = hstep + 1 /\ lp' = lp
       ELSE hstep' = 0 /\ lp' = "loop"
  /\ UNCHANGED <<cmd, focus, hview, pd, i, err, sidebar, handler, selected, nsel,
                 hrow, queue, cur, data>>

----------------------------------------------------------------------------
(* renderContents: preview.go:148-175, one goroutine per selection event *)

Running == lp \notin {"panic", "returned", "stopped"}

\* entry of renderContents: the nil check, or the call of pd.Contents(pd.Key)
TaskStart(t) ==
  /\ Running
  /\ tasks[t].tpc = "start"
  /\ tasks' = [tasks EXCEPT ![t] =
       IF @.entry.Contents.nil
         THEN [@ EXCEPT !.tpc = "print",
                        !.lines = splitText(msgNoContents),
                        !.line = 1]
         ELSE [@ EXCEPT !.tpc = "call", !.calls = @ + 1]]
  /\ UNCHANGED <<cmd, focus, hview, pd, lp, i, err, sidebar, handler, contents,
                 selected, nsel, hrow, hstep, selHist, queue, cur, data>>

\* the producer returns x to the goroutine: the type switch
TaskReturn(t) ==
  /\ Running
  /\ tasks[t].tpc = "call"
  /\ \E x \in tasks[t].entry.Contents.results :
       CASE x.type = "string" ->
              /\ tasks' = [tasks EXCEPT ![t] =
                   [@ EXCEPT !.tpc = "print", !.v = x,
                             !.lines = splitText(x.s), !.line = 1]]
              /\ queue' = queue
         [] x.type = "TableData" ->
              /\ tasks' = [tasks EXCEPT ![t] =
                   [@ EXCEPT !.tpc = "done", !.v = x, !.queued = @ + 1]]
              /\ queue' = Append(queue, t)
         [] OTHER ->
              /\ tasks' = [tasks EXCEPT ![t] = [@ EXCEPT !.tpc = "done", !.v = x]]
              /\ queue' = queue
  /\ UNCHANGED <<cmd, focus, hview, pd, lp, i, err, sidebar, handler, contents,
                 selected, nsel, hrow, hstep, selHist, cur, data>>

\* (faulty variant: a goroutine of an earlier selection drops its lines)
TaskPrintLatestOnly(t) ==
  /\ Running
  /\ tasks[t].tpc = "print"
  /\ LET k == tasks[t].line IN
       /\ contents' = IF t = nsel
                         THEN SetCell(contents, k, 1, TextCell(tasks[t].lines[k], t))
                         ELSE contents
       /\ tasks' = [tasks EXCEPT ![t] =
            [@ EXCEPT !.direct = @ + 1,
                      !.line = k + 1,
                      !.tpc = IF k = Len(tasks[t].lines) THEN "done" ELSE "print"]]
  /\ UNCHANGED <<cmd, focus, hview, pd, lp, i, err, sidebar, handler,
                 selected, nsel, hrow, hstep, selHist, queue, cur, data>>

\* one iteration of printText's loop, run by the goroutine itself
TaskPrint(t) ==
  /\ Running
  /\ tasks[t].tpc = "print"
  /\ LET k == tasks[t].line IN
       /\ contents' = SetCell(contents, k, 1, TextCell(tasks[t].lines[k], t))
       /\ tasks' = [tasks EXCEPT ![t] =
            [@ EXCEPT !.direct = @ + 1,
                      !.line = k + 1,
                      !.tpc = IF k = Len(tasks[t].lines) THEN "done" ELSE "print"]]
  /\ UNCHANGED <<cmd, focus, hview, pd, lp, i, err, sidebar, handler, selected,
                 nsel, hrow, hstep, selHist, queue, cur, data>>

----------------------------------------------------------------------------
(* The queued function: preview.go:160-173, on the loop thread *)

\* renderTableHeader(t, row): the header row, bold and not selectable
RECURSIVE headerFrom(_, _, _, _)
headerFrom(tbl, row, c, src) ==
  IF c > Len(row) THEN tbl
  ELSE headerFrom(
         SetCell(tbl, 1, c, [text |-> pad(<<row[c]>>, 1), bold |-> TRUE,
                             selectable |-> FALSE, src |-> src]),
         row, c + 1, src)

renderTableHeader(tbl, row, src) == headerFrom(tbl, row, 1, src)

\* renderTableCell(t, data): the rows after the first, below the header
RECURSIVE cellsFrom(_, _, _, _, _)
cellsFrom(tbl, d, r, c, src) ==
  IF r > Len(d) THEN tbl
  ELSE IF c > Len(d[1]) THEN cellsFrom(tbl, d, r + 1, 1, src)
  ELSE cellsFrom(
         SetCell(tbl, r, c, [text |-> pad(<<d[r][c]>>, 1), bold |-> FALSE,
                             selectable |-> TRUE, src |-> src]),
         d, r, c + 1, src)

renderTableCell(tbl, d, src) == cellsFrom(tbl, d, 2, 1, src)

\* the row handed to renderTableHeader: data[0]
\* (faulty variant: the last row is taken as the header)
headerRowLast(d) == d[Len(d)]
headerRow(d) == d[1]

\* len(data) == 1
\* (faulty variant: only a table without rows counts as no results)
noResultsWhenEmpty(d) == Len(d) = 0
noResults(d) == Len(d) = 1

\* the loop dequeues a function and runs it up to its call of pd.Contents
UpdateStart ==
  /\ lp = "loop"
  /\ queue # <<>>
  /\ cur' = Head(queue)
  /\ queue' = Tail(queue)
  /\ contents' = Clear
  /\ tasks' = [tasks EXCEPT ![Head(queue)] = [@ EXCEPT !.calls = @ + 1]]
  /\ lp' = "upd_call"
  /\ UNCHANGED <<cmd, focus, hview, pd, i, err, sidebar, handler, selected, nsel,
                 hrow, hstep, selHist, data>>

\* the producer returns x to the loop thread: .(TableData), len(data), data[0]
UpdateReturn ==
  /\ lp = "upd_call"
  /\ \E x \in tasks[cur].entry.Contents.results :
       IF x.type # "TableData"
         THEN lp' = "panic" /\ data' = data
         ELSE /\ data' = x.rows
              /\ lp' = IF noResults(x.rows) THEN "upd_nores"
                       ELSE IF Len(x.rows) = 0 THEN "panic"
                       ELSE "upd_header"
  /\ UNCHANGED <<cmd, focus, hview, pd, i, err, sidebar, handler, contents, selected,
                 nsel, hrow, hstep, selHist, tasks, queue, cur>>

\* pv.printText("No results to show."); return
UpdateNoResults ==
  /\ lp = "upd_nores"
  /\ contents' = printText(contents, msgNoResults, cur)
  /\ lp' = "loop"
  /\ cur' = 0
  /\ data' = <<>>
  /\ UNCHANGED <<cmd, focus, hview, pd, i, err, sidebar, handler, selected, nsel,
                 hrow, hstep, selHist, tasks, queue>>

\* renderTableHeader(pv.contents, data[0])
UpdateHeader ==
  /\ lp = "upd_header"
  /\ contents' = renderTableHeader(contents, headerRow(data), cur)
  /\ lp' = "upd_cells"
  /\ UNCHANGED <<cmd, focus, hview, pd, i, err, sidebar, handler, selected, nsel,
                 hrow, hstep, selHist, tasks, queue, cur, data>>

\* renderTableCell(pv.contents, data)
UpdateCells ==
  /\ lp = "upd_cells"
  /\ contents' = renderTableCell(contents, data, cur)
  /\ lp' = "loop"
  /\ cur' = 0
  /\ data' = <<>>
  /\ UNCHANGED <<cmd, focus, hview, pd, i, err, sidebar, handler, selected, nsel,
                 hrow, hstep, selHist, tasks, queue>>

----------------------------------------------------------------------------
(* Keys: initLayout, preview.go:73-101, on the loop thread *)

\* key events: the runes q, w and x, and the keys Esc and Tab
Keys == {"q", "w", "x", "Esc", "Tab"}

\* the keys for which a tview.Table calls its done function
DoneKeys == {"Esc", "Tab"}

\* nextView of view: initLayout(sidebar, contents), initLayout(contents, sidebar)
nextView(view) == IF view = "sidebar" THEN "contents" ELSE "sidebar"

\* the function given to view.SetDoneFunc: does it call pv.screen.Stop()
doneFunc(key) == key = "Esc"

\* the branch of case 'w': the pane SetFocus is called with
\* (faulty variant: the branches are swapped)
focusTargetSwapped(view, f) == IF f = view THEN view ELSE nextView(view)
focusTarget(view, f) == IF f = view THEN nextView(view) ELSE view

\* the function given to view.SetInputCapture, called with key while pane f
\* has focus: whether it calls Stop, and the focus it leaves
\* (faulty variant: q is only honoured by the sidebar's capture)
inputCaptureSidebarQuit(view, f, key) ==
  CASE key = "q" -> [stop |-> view = "sidebar", focus |-> f]
    [] key = "w" -> [stop |-> FALSE, focus |-> focusTarget(view, f)]
    [] OTHER     -> [stop |-> FALSE, focus |-> f]
inputCapture(view, f, key) ==
  CASE key = "q" -> [stop |-> TRUE, focus |-> f]
    [] key = "w" -> [stop |-> FALSE, focus |-> focusTarget(view, f)]
    [] OTHER     -> [stop |-> FALSE, focus |-> f]

\* a key event reaches the pane f that has focus: its input capture runs,
\* returns the event, and the table then calls its done function for a
\* done key
keyOutcome(f, key) ==
  LET c == inputCapture(f, f, key) IN
    [stop  |-> c.stop \/ (key \in DoneKeys /\ doneFunc(key)),
     focus |-> c.focus]

KeyEvent(key) ==
  /\ lp = "loop"
  /\ LET o == keyOutcome(focus, key) IN
       /\ focus' = o.focus
       /\ lp' = IF o.stop THEN "stopped" ELSE lp
  /\ UNCHANGED <<cmd, hview, pd, i, err, sidebar, handler,
                 contents, selected, nsel, hrow, hstep, selHist, tasks, queue,
                 cur, data>>

----------------------------------------------------------------------------

Next ==
  \/ Render
  \/ RenderRow
  \/ RenderPaint
  \/ \E r \in 1..Len(pd) : SelectionChanged(r)
  \/ \E r \in 1..Len(contents) : ContentsSelectionChanged(r)
  \/ \E key \in Keys : KeyEvent(key)
  \/ HandlerStep
  \/ \E t \in 1..Len(tasks) : TaskStart(t)
  \/ \E t \in 1..Len(tasks) : TaskReturn(t)
  \/ \E t \in 1..Len(tasks) : TaskPrint(t)
  \/ UpdateStart
  \/ UpdateReturn
  \/ UpdateNoResults
  \/ UpdateHeader
  \/ UpdateCells

Spec == Init /\ [][Next]_vars

----------------------------------------------------------------------------
(* issue create: create(), part_000:46-162, a sequential command *)

\* bound on the Metadata rounds of one run
MaxRounds == 2

ActionSubmit   == "Submit"
ActionCancel   == "Cancel"
ActionMetadata == "Metadata"

\* the variables of the preview, which the command does not use
previewVars == <<pd, lp, i, err, sidebar, handler, contents, selected,
                 nsel, hrow, hstep, selHist, tasks, queue, cur, data,
                 focus, hview>>

\* cc.isNonInteractive(): stdin has data, or the template is "-"
isNonInteractive(c) == c.stdin \/ c.template = "-"

\* cc.isMandatoryParamsMissing()
isMandatoryParamsMissing(c) == c.summary = "" \/ c.issueType = ""

\* len(cc.getQuestions()): a question per missing type and summary, and one
\* for a missing body unless noInput is set
getQuestions(c) ==
  (IF c.issueType = "" THEN 1 ELSE 0)
  + (IF c.summary = "" THEN 1 ELSE 0)
  + (IF ~c.noInput /\ c.body = "" THEN 1 ELSE 0)

\* getQuestions reads the template file or stdin
readsFile(c) == c.template # "" \/ c.stdin

\* cmdutil.Errorf and cmdutil.ExitIfError(err) with err # nil: the process
\* exits; why records the cause
Exit(c, why) == [c EXCEPT !.pc = "exited", !.why = why]

\* the condition of the action loop
\* (faulty variant: the loop is entered only to repeat a Metadata round)
loopAgainOnlyMetadata(action) == action = ActionMetadata
loopAgain(action) == action # ActionSubmit

\* the command starts with the flags parsed by parseFlags
InitCreate ==
  /\ pd = <<>>
  /\ lp = "none"
  /\ i = 0
  /\ err = ""
  /\ sidebar = <<>>
  /\ handler = FALSE
  /\ contents = <<>>
  /\ selected = 1
  /\ nsel = 0
  /\ hrow = 0
  /\ hstep = 0
  /\ selHist = <<>>
  /\ tasks = <<>>
  /\ queue = <<>>
  /\ cur = 0
  /\ data = <<>>
  /\ focus = "sidebar"
  /\ hview = ""
  /\ \E issueType, summary, body, assignee \in {"", "x"} :
     \E template \in {"", "-", "f"} :
     \E noInput, stdin, web \in BOOLEAN :
       cmd = [pc |-> "start", issueType |-> issueType, summary |-> summary,
              body |-> body, assignee |-> assignee, template |-> template,
              noInput |-> noInput, stdin |-> stdin, web |-> web,
              action |-> "", rounds |-> 0, asked |-> 0, sent |-> 0, why |-> ""]

\* lines 57-65: non-interactive input sets noInput and needs the mandatory
\* parameters
CreateStart ==
  /\ cmd.pc = "start"
  /\ cmd' = IF isNonInteractive(cmd)
              THEN IF isMandatoryParamsMissing(cmd)
                     THEN Exit([cmd EXCEPT !.noInput = TRUE], "params")
                     ELSE [cmd EXCEPT !.noInput = TRUE, !.pc = "types"]
              ELSE [cmd EXCEPT !.pc = "types"]
  /\ UNCHANGED previewVars

\* line 67: cmdutil.ExitIfError(cc.setIssueTypes())
SetIssueTypes ==
  /\ cmd.pc = "types"
  /\ \E ok \in BOOLEAN :
       cmd' = IF ok THEN [cmd EXCEPT !.pc = "questions"] ELSE Exit(cmd, "config")
  /\ UNCHANGED previewVars

\* lines 69-84: getQuestions, and the prompt for the questions if there are
\* any; the answers fill the empty parameters; line 86: if !params.noInput
AskQuestions ==
  /\ cmd.pc = "questions"
  /\ \E fileOk, askOk \in BOOLEAN :
       cmd' =
         IF readsFile(cmd) /\ ~fileOk THEN Exit(cmd, "file")
         ELSE IF getQuestions(cmd) > 0 /\ ~askOk
           THEN Exit([cmd EXCEPT !.asked = @ + 1], "prompt")
         ELSE [cmd EXCEPT
                 !.asked = IF getQuestions(cmd) > 0 THEN @ + 1 ELSE @,
                 !.issueType = IF getQuestions(cmd) > 0 THEN "x" ELSE @,
                 !.summary = IF getQuestions(cmd) > 0 THEN "x" ELSE @,
                 !.pc = IF cmd.noInput THEN "send" ELSE "loop"]
  /\ UNCHANGED previewVars

\* lines 88-94: one prompt for the next action; Cancel aborts
AskNextAction ==
  /\ cmd.pc = "loop"
  /\ loopAgain(cmd.action)
  /\ \E askOk \in BOOLEAN :
     \E a \in {ActionSubmit, ActionCancel, ActionMetadata} :
       /\ a = ActionMetadata => cmd.rounds < MaxRounds
       /\ cmd' =
            IF ~askOk THEN Exit([cmd EXCEPT !.asked = @ + 1], "prompt")
            ELSE IF a = ActionCancel
              THEN Exit([cmd EXCEPT !.asked = @ + 1, !.action = a], "cancel")
            ELSE [cmd EXCEPT !.asked = @ + 1, !.action = a,
                             !.pc = IF a = ActionMetadata THEN "metadata" ELSE "loop"]
  /\ UNCHANGED previewVars

\* lines 95-119: the Metadata round: which fields, then their values
AskMetadata ==
  /\ cmd.pc = "metadata"
  /\ \E askOk, some, valuesOk \in BOOLEAN :
       cmd' =
         IF ~askOk THEN Exit([cmd EXCEPT !.asked = @ + 1], "prompt")
         ELSE IF some /\ ~valuesOk THEN Exit([cmd EXCEPT !.asked = @ + 2], "prompt")
         ELSE [cmd EXCEPT !.asked = IF some THEN @ + 2 ELSE @ + 1,
                          !.rounds = @ + 1,
                          !.pc = "loop"]
  /\ UNCHANGED previewVars

\* line 88, the condition false: the loop ends
LoopEnd ==
  /\ cmd.pc = "loop"
  /\ ~loopAgain(cmd.action)
  /\ cmd' = [cmd EXCEPT !.pc = "send"]
  /\ UNCHANGED previewVars

\* lines 124-142: client.Create(&cr), once
SendCreate ==
  /\ cmd.pc = "send"
  /\ \E ok \in BOOLEAN :
       cmd' = IF ok THEN [cmd EXCEPT !.sent = @ + 1, !.pc = "created"]
              ELSE Exit([cmd EXCEPT !.sent = @ + 1], "api")
  /\ UNCHANGED previewVars

\* lines 146-156: the assignee is looked up and set
Assign ==
  /\ cmd.pc = "created"
  /\ \E ok \in BOOLEAN :
       cmd' = IF cmd.assignee = "" \/ ok THEN [cmd EXCEPT !.pc = "web"]
              ELSE Exit(cmd, "assignee")
  /\ UNCHANGED previewVars

\* lines 158-161: --web opens the issue in the browser
Navigate ==
  /\ cmd.pc = "web"
  /\ \E ok \in BOOLEAN :
       cmd' = IF ~cmd.web \/ ok THEN [cmd EXCEPT !.pc = "done"]
              ELSE Exit(cmd, "navigate")
  /\ UNCHANGED previewVars

NextCreate ==
  \/ CreateStart
  \/ SetIssueTypes
  \/ AskQuestions
  \/ AskNextAction
  \/ AskMetadata
  \/ LoopEnd
  \/ SendCreate
  \/ Assign
  \/ Navigate

SpecCreate == InitCreate /\ [][NextCreate]_vars

----------------------------------------------------------------------------
(* Properties *)

Tasks == 1..Len(tasks)

\* every cell of a table, as a set
CellsOf(tbl) == UNION { { tbl[r][c] : c \in 1..Len(tbl[r]) } : r \in 1..Len(tbl) }

\* the cell printText writes for a one-line text
LineCell(tok, src) ==
  [text |-> <<" ", tok>>, bold |-> FALSE, selectable |-> FALSE, src |-> src]

\* a grid's header row and body row for a row of data
HeaderCells(row, src) ==
  [c \in 1..Len(row) |->
     [text |-> <<" ", row[c]>>, bold |-> TRUE, selectable |-> FALSE, src |-> src]]

BodyCells(row, src) ==
  [c \in 1..Len(row) |->
     [text |-> <<" ", row[c]>>, bold |-> FALSE, selectable |-> TRUE, src |-> src]]

\* the pane holds a cell painted with the result of selection s's fetch
ResultShown(s) ==
  \E c \in CellsOf(contents) : c.src = s /\ c # LineCell("Loading...", s)

\* in a handler's history h, some "clear" and then some "loading" come
\* before every "go"
LoadingPrecedesGo(h) ==
  \A j \in 1..Len(h) :
    h[j] = "go" =>
      \E x, y \in 1..Len(h) : x < y /\ y < j /\ h[x] = "clear" /\ h[y] = "loading"

Occurs(h, s) == \E j \in 1..Len(h) : h[j] = s

\* C1 (as claimed): no fetch goroutine mutates a widget itself; every
\* SetCell on the content pane is made by the loop thread.
C1_WidgetsMutatedOnLoopOnly == \A t \in Tasks : tasks[t].direct = 0

\* C2: for every selection event the pane is cleared and the loading
\* placeholder painted before that selection's fetch is dispatched, so a
\* result of a selection's fetch is in the pane only after its loading state.
C2_LoadingBeforeFetch ==
  /\ Len(tasks) <= Len(selHist)
  /\ \A t \in Tasks : Occurs(selHist[t], "go") /\ LoadingPrecedesGo(selHist[t])
  /\ \A s \in 1..Len(selHist) :
       /\ LoadingPrecedesGo(selHist[s])
       /\ ResultShown(s) => Occurs(selHist[s], "loading")

C2_Witness ==
  \E t \in Tasks : tasks[t].tpc = "done" /\ ResultShown(t)

\* C3 (as claimed): a producer is invoked at most once per selection event,
\* whatever it returns.
C3_ProducerOncePerSelection == \A t \in Tasks : tasks[t].calls <= 1

\* C4 (as claimed): every fetch goroutine that has finished made exactly one
\* QueueUpdateDraw call.
C4_OneRedrawPerFetch ==
  \A t \in Tasks : tasks[t].tpc = "done" => tasks[t].queued = 1

\* C5 (as claimed): the loop thread is never inside a call of a producer.
C5_ProducerNeverOnLoop == lp # "upd_call"

\* C6: Render of an empty slice returns errNoData and touches nothing: no
\* sidebar cell, no text in the pane, no selection handler, no Paint.
C6_EmptyRenderTouchesNothing ==
  Len(pd) = 0 =>
    /\ lp \in {"new", "returned"}
    /\ lp = "returned" => err = "errNoData"
    /\ sidebar = <<>>
    /\ contents = <<>>
    /\ ~handler
    /\ nsel = 0

C6_Witness == Len(pd) = 0 /\ lp = "returned" /\ err = "errNoData"

\* C7: once Render of a non-empty slice has entered Paint, the sidebar has
\* exactly len(pd) rows, row i carries pd[i]'s label, and only the first
\* row is bold.
C7_SidebarRows ==
  lp \notin {"new", "render", "returned"} =>
    /\ Len(pd) > 0
    /\ Len(sidebar) = Len(pd)
    /\ \A r \in 1..Len(pd) :
         /\ Len(sidebar[r]) = 1
         /\ sidebar[r][1].text = <<" ">> \o pd[r].Menu
         /\ sidebar[r][1].bold = (r = 1)

C7_Witness == lp = "loop" /\ Len(pd) >= 2 /\ Len(sidebar) = Len(pd)

\* C8: when the queued function got a one-row table from the producer, the
\* step that ends it leaves "No results to show." in the pane's first cell
\* and no header or body cell of a grid anywhere in the pane.
C8_HeaderOnlyTableShowsPlaceholder ==
  [][ (cur # 0 /\ Len(data) = 1 /\ lp # "loop" /\ lp' = "loop") =>
        /\ contents'[1][1] = LineCell("No results to show.", cur)
        /\ \A c \in CellsOf(contents') : ~c.bold /\ ~c.selectable ]_vars

C8_Witness ==
  \E t \in Tasks :
    /\ lp = "loop"
    /\ tasks[t].v = Table1
    /\ contents = << <<LineCell("No results to show.", t)>> >>

\* C9: when the queued function got a table of N >= 2 rows, its header step
\* makes the pane's first row the header cells of row 0, and its body step
\* makes pane rows 1..N-1 the body cells of data rows 1..N-1 in order,
\* leaves the header row as it was and puts no body cell anywhere else.
C9_GridHeaderAndBody ==
  [][ /\ (lp = "upd_header" /\ lp' = "upd_cells") =>
           /\ Len(data) >= 2
           /\ contents'[1] = HeaderCells(data[1], cur)
      /\ (lp = "upd_cells" /\ lp' = "loop") =>
           /\ Len(data) >= 2
           /\ Len(contents') >= Len(data)
           /\ \A r \in 2..Len(data) : contents'[r] = BodyCells(data[r], cur)
           /\ contents'[1] = contents[1]
           /\ \A r \in 1..Len(contents') :
                r \notin 2..Len(data) =>
                  \A c \in 1..Len(contents'[r]) : ~contents'[r][c].selectable
    ]_vars

C9_Witness ==
  \E t \in Tasks :
    /\ lp = "loop"
    /\ contents = << HeaderCells(Table3.rows[1], t),
                     BodyCells(Table3.rows[2], t),
                     BodyCells(Table3.rows[3], t) >>

\* C10: a goroutine started for an entry whose producer is nil never calls a
\* producer, and the step that ends it leaves "No contents defined." in the
\* pane's first cell, without a fault.
C10_NilProducerPlaceholder ==
  [][ \A t \in Tasks :
        tasks[t].entry.Contents.nil =>
          /\ tasks'[t].calls = 0
          /\ (tasks[t].tpc # "done" /\ tasks'[t].tpc = "done") =>
               /\ contents'[1][1] = LineCell("No contents defined.", t)
               /\ lp' # "panic" ]_vars

C10_Witness ==
  \E t \in Tasks :
    /\ tasks[t].entry.Contents.nil
    /\ tasks[t].tpc = "done"
    /\ contents[1][1] = LineCell("No contents defined.", t)

Panes == {"sidebar", "contents"}

\* the loop thread takes this key now and the loop is told to stop
StopsOn(key) == KeyEvent(key) /\ lp' = "stopped"

\* C11: whenever the loop can take a key event, whichever pane has focus and
\* whatever the fetches are doing, the keys that make the handlers call Stop
\* are exactly q and Esc, and taking q or Esc then stops the loop.
C11_QuitKeys ==
  lp = "loop" =>
    /\ \A key \in Keys : keyOutcome(focus, key).stop <=> key \in {"q", "Esc"}
    /\ ENABLED StopsOn("q")
    /\ ENABLED StopsOn("Esc")
    /\ ~ENABLED StopsOn("w")
    /\ ~ENABLED StopsOn("x")
    /\ ~ENABLED StopsOn("Tab")

C11_Witness ==
  /\ lp = "stopped"
  /\ focus = "contents"
  /\ \E t \in Tasks : ~Finished(t)

\* C12: exactly one of the two panes has focus; whenever the loop can take a
\* key event, w moves focus to the other pane and a second w moves it back.
C12_FocusToggle ==
  /\ focus \in Panes
  /\ lp = "loop" =>
       LET f1 == keyOutcome(focus, "w").focus
           f2 == keyOutcome(f1, "w").focus
       IN  /\ f1 \in Panes
           /\ f1 # focus
           /\ f2 = focus
           /\ \A key \in Keys \ {"w"} : keyOutcome(focus, key).focus = focus

C12_Witness == lp = "loop" /\ focus = "contents" /\ nsel > 0

\* C13: a goroutine is started only by the selection-changed function
\* serving the sidebar, exactly one per call and for the entry at the newly
\* selected row; Render, a focus change and a selection move in the content
\* table start none.
C13_FetchOnlyOnSidebarSelection ==
  [][ /\ Len(tasks') # Len(tasks) =>
           /\ lp = "handler"
           /\ hview = "sidebar"
           /\ Len(tasks') = Len(tasks) + 1
           /\ tasks'[Len(tasks')].r = selected
           /\ tasks'[Len(tasks')].entry = pd[selected]
      /\ (lp # "handler" /\ lp' = "handler") =>
           /\ focus = "sidebar"
           /\ hview' = "sidebar"
           /\ selected' = hrow'
           /\ nsel' = nsel + 1
      /\ (lp = "handler" /\ lp' = "loop") => Len(tasks') = nsel
      /\ focus' # focus => tasks' = tasks
      /\ lp \in {"new", "render"} => tasks' = <<>>
    ]_vars

C13_Witness ==
  /\ lp = "loop"
  /\ focus = "contents"
  /\ Len(contents) > 0
  /\ nsel = 2
  /\ Len(tasks) = 2
  /\ tasks[1].r # tasks[2].r

\* every fetch has returned and every queued function has run
Quiescent ==
  /\ lp = "loop"
  /\ Len(tasks) = nsel
  /\ \A t \in Tasks : Finished(t)

\* the pane's cell at row k, column 1 is c
CellIs(tbl, k, c) == Len(tbl) >= k /\ Len(tbl[k]) >= 1 /\ tbl[k][1] = c

\* C14: a new selection cancels nothing: it leaves the goroutines and the
\* queued functions of earlier selections as they are, a goroutine that
\* prints writes its line whether or not a newer selection exists, and a
\* queued function leaves the queue only by being run.  (The witness is the
\* stale outcome: all fetches done, the pane holding only cells of the
\* older of two selections of different rows.)
C14_StaleFetchStillPaints ==
  [][ /\ \A t \in Tasks :
           (tasks[t].tpc = "print" /\ tasks'[t] # tasks[t]) =>
             CellIs(contents', tasks[t].line,
                    [text |-> <<" ">> \o tasks[t].lines[tasks[t].line],
                     bold |-> FALSE, selectable |-> FALSE, src |-> t])
      /\ (lp # "handler" /\ lp' = "handler") => tasks' = tasks /\ queue' = queue
      /\ \A t \in Tasks : tasks'[t].tpc = "done" => tasks[t].tpc # "start"
      /\ Len(queue') < Len(queue) =>
           /\ queue' = Tail(queue)
           /\ cur' = Head(queue)
           /\ contents' = <<>>
    ]_vars

C14_Witness ==
  /\ Quiescent
  /\ nsel = 2
  /\ tasks[1].r # tasks[2].r
  /\ selected = tasks[2].r
  /\ contents # <<>>
  /\ \A c \in CellsOf(contents) : c.src = 1

\* fetch t is dispatched and none of its result is painted yet: its
\* goroutine has not started printing, or its queued function has not run
Outstanding(t) ==
  \/ tasks[t].tpc \in {"start", "call"}
  \/ \E k \in 1..Len(queue) : queue[k] = t

\* the pane as the handler of the current selection leaves it
LoadingPane == << <<LineCell("Loading...", nsel)>> >>

\* C15 (as claimed): while the fetch of the current selection is
\* outstanding, the content pane shows the loading placeholder and nothing
\* else: the session is Loading from the dispatch until that same fetch's
\* result is painted.
C15_LoadingUntilOwnResult ==
  (nsel >= 1 /\ Len(tasks) = nsel /\ Outstanding(nsel)) => contents = LoadingPane

\* C16 (as claimed): once every fetch has completed, the rows of the content
\* pane all come from one single paint.
C16_PaneFromOnePaint ==
  Quiescent => \A c, d \in CellsOf(contents) : c.src = d.src

\* C17 (as claimed): the function queued by a fetch never faults, whatever
\* the producer returns on either of its calls.
C17_RedrawNeverFaults == ~(lp = "panic" /\ cur # 0)

\* C18: the create request is sent at most once in a run; with interactive
\* input (noInput not set) it is sent only after the next-action prompt
\* returned Submit, whatever the number of Metadata rounds before; no request
\* is sent in a run that ended on Cancel or on a failed prompt.
C18_CreateSentOnceAfterSubmit ==
  /\ cmd.sent <= 1
  /\ (cmd.sent = 1 /\ ~cmd.noInput) => cmd.action = ActionSubmit
  /\ cmd.pc \in {"send", "created", "web", "done"} =>
       (cmd.noInput \/ cmd.action = ActionSubmit)
  /\ (cmd.pc = "exited" /\ cmd.why \in {"cancel", "prompt"}) => cmd.sent = 0
  /\ cmd.pc \in {"created", "web", "done"} => cmd.sent = 1

C18_Witness ==
  /\ cmd.pc = "done"
  /\ ~cmd.noInput
  /\ cmd.rounds = MaxRounds
  /\ cmd.action = ActionSubmit
  /\ cmd.sent = 1

====
